---- MODULE Spec2Model ----
(***************************************************************************)
(* The round/game progression of my-hangman-game (main.py, player.py):     *)
(* HangmanGame.run and the handlers it calls, Player, and the loop of      *)
(* main() that drives them.  Rendering, sound and layout are left out.     *)
(***************************************************************************)
EXTENDS Integers, Sequences, FiniteSets, TLC

(***************************************************************************)
(* Bounds of the model.                                                    *)
(***************************************************************************)
\* letters on the board: _init_letters builds 26, the model keeps the first ones
NumLetters == 9
\* points a player may hold when a QUIT event ends round 3 in play
\* (main() then builds a further game for the same players and their scores)
MaxCarried == 0
\* hints granted to one set of players
MaxHints == 3

(***************************************************************************)
(* Program constants.                                                      *)
(***************************************************************************)
NumImages == 8
TotalRounds == 3
InitialHints == 3
BasePoints == 7
NoHintBonus == 10

ascii_lowercase ==
    << "a", "b", "c", "d", "e", "f", "g", "h", "i", "j", "k", "l", "m",
       "n", "o", "p", "q", "r", "s", "t", "u", "v", "w", "x", "y", "z" >>

ascii_uppercase ==
    << "A", "B", "C", "D", "E", "F", "G", "H", "I", "J", "K", "L", "M",
       "N", "O", "P", "Q", "R", "S", "T", "U", "V", "W", "X", "Y", "Z" >>

\* str.isalpha for one character
IsAlpha(c) ==
    \E i \in 1..26 : c = ascii_lowercase[i] \/ c = ascii_uppercase[i]

\* str.lower for one character
Lower(c) ==
    IF \E i \in 1..26 : c = ascii_uppercase[i]
    THEN ascii_lowercase[CHOOSE i \in 1..26 : c = ascii_uppercase[i]]
    ELSE c

\* str.strip() of a word is empty
IsBlank(word) ==
    \A i \in DOMAIN word : word[i] = " "

\* `c in word` for a one-character string c
InWord(c, word) ==
    \E i \in DOMAIN word : word[i] = c

\* index of a letter on the board, in the order _init_letters builds it
LetterIndex(l) ==
    CHOOSE i \in 1..26 : ascii_lowercase[i] = l

\* the characters of the letter buttons
BoardLetters ==
    { ascii_lowercase[i] : i \in 1..NumLetters }

\* _init_letters leaving the first letter hidden
InitLettersFirstHidden ==
    [ l \in BoardLetters |-> l # ascii_lowercase[1] ]

\* _init_letters: every letter visible
InitLetters ==
    [ l \in BoardLetters |-> TRUE ]

(***************************************************************************)
(* words_clues.json: difficulty -> word -> clue.                           *)
(***************************************************************************)
words_clues ==
    [ easy |-> { [word |-> << "c", "b" >>, clue |-> "a taxi"],
                 [word |-> << "i" >>, clue |-> "the ninth letter"],
                 [word |-> << "7" >>, clue |-> "days of a week"] } ]

Difficulties == DOMAIN words_clues

\* the dict without a key
NoClues ==
    [ d \in {} |-> {} ]

\* words_clues.json as shipped
GoodFile ==
    [ kind |-> "json", data |-> words_clues ]

\* What load_clues can find: the file as shipped, no file, a file that is not
\* JSON, a file without the difficulty, a file with no word for it.
Files ==
    { GoodFile,
      [ kind |-> "missing", data |-> NoClues ],
      [ kind |-> "malformed", data |-> NoClues ],
      [ kind |-> "json",
        data |-> [ hard |-> { [word |-> << "z" >>, clue |-> "the last letter"] } ] ],
      [ kind |-> "json", data |-> [ easy |-> {} ] ] }

\* load_clues keeping words when the file cannot be read
LoadCluesWithDefault(file) ==
    IF file.kind = "json" THEN file.data ELSE words_clues

\* HangmanGame.load_clues: self.words_clues
LoadClues(file) ==
    IF file.kind = "json" THEN file.data ELSE NoClues

\* start: self.words_clues[difficulty] raises KeyError, or random.choice
\* raises IndexError on the empty list of words
StartRaises(wc, d) ==
    IF d \in DOMAIN wc THEN wc[d] = {} ELSE TRUE

\* start: list(self.words_clues[difficulty].keys())
WordsOf(wc, d) ==
    { e.word : e \in wc[d] }

\* list(self.words_clues[difficulty].keys())
Words(d) ==
    { e.word : e \in words_clues[d] }

VARIABLES
    pc,                    \* where main() stands: "run", "after_quit", "exited"
    clues_file,            \* words_clues.json as load_clues found it last; the
                           \* file is taken to change only between two calls
                           \* of main(), so every later start reads it the same
    loaded_clues,          \* self.words_clues
    total_players,         \* num_players of main()
    difficulty,
    main_player_index,     \* current_player_index of main()
    players,               \* index -> Player
    current_player_index,
    current_round,
    game_state,
    hangman_status,
    current_word,
    guessed,
    letters,               \* letter -> visible
    hint_message,
    hint_active,
    winner,                \* display_game_over_two_players: the line on the winner
    hint_round,            \* history: a hint was granted in the round in play
    last                   \* history: what the last step was ("repeat": a click
                           \*          on a letter clicked before)

vars ==
    << pc, clues_file, loaded_clues, total_players, difficulty, main_player_index, players,
       current_player_index, current_round, game_state, hangman_status,
       current_word, guessed, letters, hint_message, hint_active,
       winner, hint_round, last >>

\* Player.__init__
NewPlayer ==
    [ score |-> 0, hints_used |-> FALSE, hints_left |-> InitialHints ]

\* update_score taking the points away
UpdateScoreSubtracts(p, points) ==
    [ p EXCEPT !.score = p.score - points ]

\* Player.update_score
UpdateScore(p, points) ==
    [ p EXCEPT !.score = p.score + points ]

\* words_clues.get(difficulty, {}).get(current_word, "No clue available")
Clue(wc, d, w) ==
    IF d \in DOMAIN wc /\ \E e \in wc[d] : e.word = w
    THEN (CHOOSE e \in wc[d] : e.word = w).clue
    ELSE "No clue available"

\* Player.provide_hint, the string it returns
HintText(p, wc, d, w) ==
    IF p.hints_left > 0
    THEN Clue(wc, d, w)
    ELSE "No hints left."

\* provide_hint without `if self.hints_left > 0`
ProvideHintNoTest(p) ==
    [ p EXCEPT !.hints_left = p.hints_left - 1, !.hints_used = TRUE ]

\* provide_hint without `self.hints_used = True`
ProvideHintNoFlag(p) ==
    IF p.hints_left > 0
    THEN [ p EXCEPT !.hints_left = p.hints_left - 1 ]
    ELSE p

\* Player.provide_hint, the state it leaves
ProvideHint(p) ==
    IF p.hints_left > 0
    THEN [ p EXCEPT !.hints_left = p.hints_left - 1, !.hints_used = TRUE ]
    ELSE p

\* _is_word_guessed with any() for all()
IsWordGuessedAny(word, g) ==
    IF IsBlank(word)
    THEN FALSE
    ELSE \E i \in DOMAIN word : IsAlpha(word[i]) /\ word[i] \in g

\* HangmanGame._is_word_guessed
IsWordGuessed(word, g) ==
    IF IsBlank(word)
    THEN FALSE
    ELSE \A i \in DOMAIN word : IsAlpha(word[i]) => word[i] \in g

\* run without `if self.guessed:` around its game-over test
HasGuessAlways(g) ==
    TRUE

\* run testing `if not self.guessed:` before its game-over test
HasGuessInverted(g) ==
    g = {}

\* run: `if self.guessed:`, the game-over test is made
HasGuess(g) ==
    g # {}

\* the loss test of run one image early
IsHangedEarly(status) ==
    status >= NumImages - 2

\* the loss test of run
IsHanged(status) ==
    status >= NumImages - 1

\* update_scores without its test of the lives left
UpdateScoresNoLifeTest(ps, idx, word, g, status) ==
    IF IsWordGuessed(word, g)
    THEN LET based == UpdateScore(ps[idx], BasePoints - status)
         IN  [ ps EXCEPT ![idx] =
                 IF ~ps[idx].hints_used
                 THEN UpdateScore(based, NoHintBonus)
                 ELSE based ]
    ELSE ps

\* HangmanGame.update_scores
UpdateScores(ps, idx, word, g, status) ==
    IF IsWordGuessed(word, g) /\ status < NumImages - 1
    THEN LET based == UpdateScore(ps[idx], BasePoints - status)
         IN  [ ps EXCEPT ![idx] =
                 IF ~ps[idx].hints_used
                 THEN UpdateScore(based, NoHintBonus)
                 ELSE based ]
    ELSE ps

\* the wrong-guess branch without its test against the last image
WrongGuessUncapped(status) ==
    status + 1

\* _handle_events without self.hangman_status += 1
WrongGuessNotCounted(status) ==
    status

\* the wrong-guess branch of _handle_events
WrongGuess(status) ==
    IF status < NumImages - 1 THEN status + 1 ELSE status

\* display_game_over_two_players with >= for >
WinnerNoTie(ps) ==
    IF ps[0].score >= ps[1].score
    THEN "Player 1 is the winner!"
    ELSE IF ps[1].score > ps[0].score
         THEN "Player 2 is the winner!"
         ELSE "It's a tie!"

\* display_game_over_two_players: the line on the winner
Winner(ps) ==
    IF ps[0].score > ps[1].score
    THEN "Player 1 is the winner!"
    ELSE IF ps[1].score > ps[0].score
         THEN "Player 2 is the winner!"
         ELSE "It's a tie!"

\* handle_end_of_round setting "end_of_round" when a player alone has no
\* round left
EndStateEndOfRound(n, idx) ==
    IF n = 1
    THEN "end_of_round"
    ELSE IF idx + 1 = n
         THEN "end_of_game_two_players_second"
         ELSE "end_of_game_two_players_first"

\* handle_end_of_round with the test for the last player turned around
EndStateLastPlayerFirst(n, idx) ==
    IF n = 1
    THEN "end_of_game_single_player"
    ELSE IF idx + 1 < n
         THEN "end_of_game_two_players_second"
         ELSE "end_of_game_two_players_first"

\* the next game_state handle_end_of_round sets when no round is left
EndState(n, idx) ==
    IF n = 1
    THEN "end_of_game_single_player"
    ELSE IF idx + 1 = n
         THEN "end_of_game_two_players_second"
         ELSE "end_of_game_two_players_first"

\* run would end the round at its next game-over test
Pending ==
    /\ HasGuess(guessed)
    /\ IsHanged(hangman_status) \/ IsWordGuessed(current_word, guessed)

\* Events that reach the event loop of run behind the one that ends the round
\* are modelled for a player alone; two players send none.
EventAccepted ==
    total_players = 1 \/ ~Pending

\* hints granted so far to this set of players
HintsGranted ==
    LET RECURSIVE sum(_)
        sum(i) == IF i < 0 THEN 0
                  ELSE (InitialHints - players[i].hints_left) + sum(i - 1)
    IN  sum(total_players - 1)

\* the letter of S that comes first on the board, if S has one
First(S) ==
    LET at == { i \in 1..NumLetters : ascii_lowercase[i] \in S }
    IN  { ascii_lowercase[i] : i \in { i \in at : \A k \in at : i <= k } }

\* The letters the modelled player clicks.  A player alone clicks any visible
\* letter of the word or the first visible letter outside it (which of the
\* letters outside the word is clicked makes no difference to the code); two
\* players click the visible letters in the order of the board.
Offered ==
    LET visible(inw) ==
            { l \in BoardLetters : letters[l] /\ (InWord(l, current_word) = inw) }
    IN  IF total_players = 1
        THEN visible(TRUE) \cup First(visible(FALSE))
        ELSE First(visible(TRUE) \cup visible(FALSE))

\* The letters clicked a second time: the first hidden letter of the word
\* and the first hidden letter outside it.
Repeated ==
    LET hidden(inw) ==
            { l \in BoardLetters : ~letters[l] /\ (InWord(l, current_word) = inw) }
    IN  First(hidden(TRUE)) \cup First(hidden(FALSE))

(***************************************************************************)
(* main(): the screens before the first round, and the first HangmanGame.  *)
(***************************************************************************)
\* main() going on with the players of the session before
SessionPlayersKept(n) ==
    IF n = total_players THEN players ELSE [ i \in 0..(n - 1) |-> NewPlayer ]

\* main(): players = [Player(...) for i in range(num_players)]
SessionPlayers(n) ==
    [ i \in 0..(n - 1) |-> NewPlayer ]

StartSession(n, d, w) ==
    /\ pc' = "run"
    /\ total_players' = n
    /\ difficulty' = d
    /\ main_player_index' = 0
    /\ players' = SessionPlayers(n)
    /\ current_player_index' = 0
    /\ current_round' = 1
    /\ game_state' = "playing"
    /\ hangman_status' = 0
    /\ current_word' = w
    /\ guessed' = {}
    /\ letters' = InitLetters
    /\ hint_message' = ""
    /\ hint_active' = FALSE
    /\ hint_round' = FALSE
    /\ winner' = ""
    /\ last' = "start"

Init ==
    \E n \in 1..2, d \in Difficulties :
      \E w \in Words(d) :
        /\ pc = "run"
        /\ clues_file = GoodFile
        /\ loaded_clues = LoadClues(GoodFile)
        /\ total_players = n
        /\ difficulty = d
        /\ main_player_index = 0
        /\ players = [ i \in 0..(n - 1) |-> NewPlayer ]
        /\ current_player_index = 0
        /\ current_round = 1
        /\ game_state = "playing"
        /\ hangman_status = 0
        /\ current_word = w
        /\ guessed = {}
        /\ letters = InitLetters
        /\ hint_message = ""
        /\ hint_active = FALSE
        /\ hint_round = FALSE
        /\ winner = ""
        /\ last = "start"

\* reset_game_state handing the current player the hints of a new player
ClearHintsUsedAndRefill(ps, idx) ==
    [ ps EXCEPT ![idx].hints_used = FALSE, ![idx].hints_left = InitialHints ]

\* reset_game_state clearing hints_used of every player
ClearHintsUsedOfAll(ps, idx) ==
    [ p \in DOMAIN ps |-> [ ps[p] EXCEPT !.hints_used = FALSE ] ]

\* reset_game_state: current_player.hints_used = False
ClearHintsUsed(ps, idx) ==
    [ ps EXCEPT ![idx].hints_used = FALSE ]

\* reset_game_state without self.guessed.clear()
ResetGameStateKeepsGuessed(w) ==
    /\ guessed' = guessed
    /\ hangman_status' = 0
    /\ current_word' = w
    /\ letters' = InitLetters
    /\ hint_message' = ""
    /\ hint_active' = FALSE
    /\ game_state' = "playing"

\* HangmanGame.reset_game_state with the word random.choice picks
ResetGameState(w) ==
    /\ guessed' = {}
    /\ hangman_status' = 0
    /\ current_word' = w
    /\ letters' = InitLetters
    /\ hint_message' = ""
    /\ hint_active' = FALSE
    /\ game_state' = "playing"

(***************************************************************************)
(* run, state "playing": one MOUSEBUTTONDOWN of the event loop.            *)
(***************************************************************************)
\* _handle_events taking every click on a letter for a new guess
CountedAgain(l) ==
    TRUE

\* _handle_events: the click on letter l is a guess that counts, the button
\* being visible and the letter not in self.guessed
Counted(l) ==
    letters[l] /\ Lower(l) \notin guessed

\* _handle_events, a click where the button of letter l is drawn or was drawn
\* before an earlier click hid it (no button matches then; the click is
\* neither on the hint button)
ClickLetter(l) ==
    /\ pc = "run"
    /\ game_state = "playing"
    /\ l \in Offered \cup Repeated
    /\ EventAccepted
    /\ letters' = [ letters EXCEPT ![l] = FALSE ]
    /\ IF Counted(l)
       THEN /\ guessed' = guessed \cup { Lower(l) }
            /\ hangman_status' =
                 IF InWord(Lower(l), current_word)
                 THEN hangman_status
                 ELSE WrongGuess(hangman_status)
       ELSE UNCHANGED << guessed, hangman_status >>
    /\ last' = IF letters[l] THEN "event" ELSE "repeat"
    /\ UNCHANGED << pc, total_players, clues_file, loaded_clues, difficulty, main_player_index,
                    players, current_player_index, current_round, game_state,
                    current_word, hint_round,
                    hint_message, hint_active, winner >>

\* _handle_events, a click on the hint button
ClickHint ==
    /\ pc = "run"
    /\ game_state = "playing"
    /\ EventAccepted
    /\ HintsGranted < MaxHints \/ players[current_player_index].hints_left = 0
    /\ players' = [ players EXCEPT ![current_player_index] =
                      ProvideHint(players[current_player_index]) ]
    /\ hint_message' = HintText(players[current_player_index], loaded_clues,
                                difficulty, current_word)
    /\ hint_active' = TRUE
    /\ hint_round' = (hint_round \/ players[current_player_index].hints_left > 0)
    /\ last' = "event"
    /\ UNCHANGED << pc, total_players, clues_file, loaded_clues, difficulty, main_player_index,
                    current_player_index, current_round, game_state,
                    hangman_status, current_word, guessed, letters, winner >>

(***************************************************************************)
(* run, state "playing": the game-over test after the event loop.          *)
(***************************************************************************)
\* handle_end_of_round counting a round twice
NextRoundTwice(round) ==
    round + 2

\* the round counter handle_end_of_round moves to
NextRound(round) ==
    round + 1

\* handle_end_of_round with <= for <
RoundsLeftOffByOne(round) ==
    round <= TotalRounds

\* handle_end_of_round: a further round follows
RoundsLeft(round) ==
    round < TotalRounds

\* handle_end_of_round, with the scores update_scores left and the word
\* random.choice picks in reset_game_state
HandleEndOfRound(scored, w) ==
    IF RoundsLeft(current_round)
    THEN /\ current_round' = NextRound(current_round)
         /\ ResetGameState(w)
         /\ players' = ClearHintsUsed(scored, current_player_index)
         /\ hint_round' = FALSE
         /\ winner' = winner
    ELSE /\ game_state' = EndState(total_players, current_player_index)
         /\ players' = scored
         /\ winner' =
              IF EndState(total_players, current_player_index)
                   = "end_of_game_two_players_second"
              THEN Winner(scored)
              ELSE winner
         /\ UNCHANGED << current_round, guessed, hangman_status, current_word,
                         letters, hint_round,
                    hint_message, hint_active >>

\* run: "You were hanged!", update_scores, handle_end_of_round
RoundLost(w) ==
    /\ pc = "run"
    /\ game_state = "playing"
    /\ HasGuess(guessed)
    /\ IsHanged(hangman_status)
    /\ HandleEndOfRound(
         UpdateScores(players, current_player_index, current_word, guessed,
                      hangman_status), w)
    /\ last' = "lose"
    /\ UNCHANGED << pc, total_players, clues_file, loaded_clues, difficulty, main_player_index,
                    current_player_index >>

\* run: "Congratulations, you won!", update_scores, handle_end_of_round
RoundWon(w) ==
    /\ pc = "run"
    /\ game_state = "playing"
    /\ HasGuess(guessed)
    /\ ~IsHanged(hangman_status)
    /\ IsWordGuessed(current_word, guessed)
    /\ HandleEndOfRound(
         UpdateScores(players, current_player_index, current_word, guessed,
                      hangman_status), w)
    /\ last' = "win"
    /\ UNCHANGED << pc, total_players, clues_file, loaded_clues, difficulty, main_player_index,
                    current_player_index >>

(***************************************************************************)
(* run, state "playing": a QUIT event, and what main() does with the False *)
(* that run returns.                                                       *)
(***************************************************************************)
\* run returns False and main() executes `game.current_round += 1`
RunQuit ==
    /\ pc = "run"
    /\ game_state = "playing"
    /\ current_round = TotalRounds =>
         \A p \in DOMAIN players : players[p].score <= MaxCarried
    /\ current_round' = current_round + 1
    /\ pc' = "after_quit"
    /\ last' = "quit"
    /\ UNCHANGED << total_players, clues_file, loaded_clues, difficulty, main_player_index,
                    players, current_player_index, game_state, hangman_status,
                    current_word, guessed, letters, hint_round,
                    hint_message, hint_active, winner >>

\* HangmanGame.handle_end_of_game; -1 stands for None
HandleEndOfGame ==
    IF game_state = "end_of_game_two_players_first"
    THEN (current_player_index + 1) % total_players
    ELSE -1

\* main(): the rounds of this game are not used up: start and reset_game_state
MainRestartRound(w) ==
    /\ pc = "after_quit"
    /\ ~(current_round > TotalRounds)
    /\ pc' = "run"
    /\ ResetGameState(w)
    /\ players' = ClearHintsUsed(players, current_player_index)
    /\ hint_round' = FALSE
    /\ last' = "main"
    /\ UNCHANGED << total_players, clues_file, loaded_clues, difficulty, main_player_index,
                    current_player_index, current_round, winner >>

\* main(): leave the inner loop, move to the next player, build a HangmanGame
\* for the same players and start it
MainNewGame(w) ==
    /\ pc = "after_quit"
    /\ current_round > TotalRounds
    /\ LET result == HandleEndOfGame
           index  == IF result # -1 THEN result ELSE main_player_index
           next   == (index + 1) % total_players
       IN  /\ main_player_index' = next
           /\ current_player_index' = next
    /\ pc' = "run"
    /\ current_round' = 1
    /\ game_state' = "playing"
    /\ hangman_status' = 0
    /\ guessed' = {}
    /\ letters' = InitLetters
    /\ current_word' = w
    /\ hint_message' = ""
    /\ hint_active' = FALSE
    /\ hint_round' = FALSE
    /\ last' = "main"
    /\ UNCHANGED << total_players, clues_file, loaded_clues, difficulty, players, winner >>

(***************************************************************************)
(* wait_for_user_input and handle_button_click in the end-of-game states.  *)
(***************************************************************************)
EndStates ==
    { "end_of_game_single_player", "end_of_game_two_players_first",
      "end_of_game_two_players_second" }

\* a QUIT event or a click on the exit button: pygame.quit(); quit()
WaitExit ==
    /\ pc = "run"
    /\ game_state \in EndStates
    /\ pc' = "exited"
    /\ last' = "exit"
    /\ UNCHANGED << total_players, clues_file, loaded_clues, difficulty, main_player_index,
                    players, current_player_index, current_round, game_state,
                    hangman_status, current_word, guessed, letters, hint_round,
                    hint_message, hint_active, winner >>

\* the continue button after the first of two players: the second player's turn
ContinueSecondPlayer(w) ==
    /\ pc = "run"
    /\ game_state = "end_of_game_two_players_first"
    /\ current_player_index' = (current_player_index + 1) % total_players
    /\ current_round' = 1
    /\ ResetGameState(w)
    /\ players' =
         ClearHintsUsed(players, (current_player_index + 1) % total_players)
    /\ hint_round' = FALSE
    /\ last' = "confirm"
    /\ UNCHANGED << pc, total_players, clues_file, loaded_clues, difficulty, main_player_index,
                    winner >>

\* the continue button at the end of the game: main() is called again
ContinueNewGame ==
    /\ pc = "run"
    /\ game_state \in { "end_of_game_single_player",
                        "end_of_game_two_players_second" }
    /\ pc' = "screens"
    /\ last' = "confirm"
    /\ UNCHANGED << total_players, clues_file, loaded_clues, difficulty, main_player_index,
                    players, current_player_index, current_round, game_state,
                    hangman_status, current_word, guessed, letters, hint_round,
                    hint_message, hint_active, winner >>

\* main(): the player count and the difficulty are chosen, the game starts
\* with a word of the file load_clues reads
ScreensStart(n, d, w) ==
    /\ pc = "screens"
    /\ \E f \in Files :
         /\ ~StartRaises(LoadClues(f), d)
         /\ w \in WordsOf(LoadClues(f), d)
         /\ clues_file' = f
         /\ loaded_clues' = LoadClues(f)
    /\ StartSession(n, d, w)

\* main(): the player count and the difficulty are chosen, a HangmanGame is
\* built and its start raises, which main() does not catch.  No run of that
\* game follows: of its fields only words_clues and difficulty are recorded,
\* the others keep what the game before held.
ScreensStartFails(n, d, f) ==
    /\ pc = "screens"
    /\ StartRaises(LoadClues(f), d)
    /\ pc' = "error"
    /\ clues_file' = f
    /\ loaded_clues' = LoadClues(f)
    /\ difficulty' = d
    /\ last' = "error"
    /\ UNCHANGED << total_players, main_player_index, players,
                    current_player_index, current_round, game_state,
                    hangman_status, current_word, guessed, letters, hint_round,
                    hint_message, hint_active, winner >>

\* main(): a QUIT event on a screen, or the exit button of the rules
ScreensExit ==
    /\ pc = "screens"
    /\ pc' = "exited"
    /\ last' = "exit"
    /\ UNCHANGED << total_players, clues_file, loaded_clues, difficulty, main_player_index,
                    players, current_player_index, current_round, game_state,
                    hangman_status, current_word, guessed, letters, hint_round,
                    hint_message, hint_active, winner >>

Next ==
    \/ \E l \in Offered \cup Repeated : ClickLetter(l)
    \/ ClickHint
    \/ \E w \in Words(difficulty) : RoundLost(w)
    \/ \E w \in Words(difficulty) : RoundWon(w)
    \/ RunQuit
    \/ \E w \in Words(difficulty) : MainRestartRound(w)
    \/ \E w \in Words(difficulty) : MainNewGame(w)
    \/ WaitExit
    \/ \E w \in Words(difficulty) : ContinueSecondPlayer(w)
    \/ ContinueNewGame
    \/ \E n \in 1..2, d \in Difficulties : \E w \in Words(d) : ScreensStart(n, d, w)
    \/ \E n \in 1..2, d \in Difficulties, f \in Files : ScreensStartFails(n, d, f)
    \/ ScreensExit

Spec ==
    Init /\ [][Next]_vars

(***************************************************************************)
(* The game of a player who keeps playing: clicks on visible letters, the  *)
(* game-over test of run, the continue button after the first of two       *)
(* players.  No QUIT event, no exit button; the hint button, which writes  *)
(* neither guessed nor hangman_status, is left out.                        *)
(***************************************************************************)
\* a click on a letter that is still visible
PlayLetter ==
    \E l \in Offered : ClickLetter(l)

\* the game-over test of run ends the round
EndRound ==
    \E w \in Words(difficulty) : RoundLost(w) \/ RoundWon(w)

\* the continue button after the first of two players
Handoff ==
    \E w \in Words(difficulty) : ContinueSecondPlayer(w)

NextLive ==
    \/ PlayLetter
    \/ EndRound
    \/ Handoff

\* The player goes on clicking while a letter is visible and clicks continue
\* when asked; run makes its game-over test in every pass of the loop of
\* main().
SpecLive ==
    /\ Init
    /\ [][NextLive]_vars
    /\ WF_vars(PlayLetter)
    /\ WF_vars(EndRound)
    /\ WF_vars(Handoff)

(***************************************************************************)
(* provide_hint on drawn arguments: the click on the hint button for any   *)
(* counters of the players and any (words_clues, difficulty, current_word) *)
(* handed to Player.provide_hint, also a difficulty and a word that        *)
(* words_clues does not hold.                                              *)
(***************************************************************************)
InitHint ==
    \E n \in 1..2 :
      \E idx \in 0..(n - 1),
         d \in Difficulties \cup { "hard" },
         w \in Words("easy") \cup { << "z" >> },
         g \in { {}, { "a" } },
         ps \in [ 0..(n - 1) ->
                    [ score : { 0, BasePoints + NoHintBonus },
                      hints_used : BOOLEAN,
                      hints_left : 0..InitialHints ] ] :
        /\ pc = "run"
        /\ clues_file = GoodFile
        /\ loaded_clues = LoadClues(GoodFile)
        /\ total_players = n
        /\ difficulty = d
        /\ main_player_index = 0
        /\ players = ps
        /\ current_player_index = idx
        /\ current_round = 1
        /\ game_state = "playing"
        /\ hangman_status = Cardinality({ l \in g : ~InWord(l, w) })
        /\ current_word = w
        /\ guessed = g
        /\ letters = [ l \in BoardLetters |-> l \notin g ]
        /\ hint_message = ""
        /\ hint_active = FALSE
        /\ hint_round = FALSE
        /\ winner = ""
        /\ last = "start"

NextHint ==
    ClickHint

SpecHint ==
    InitHint /\ [][NextHint]_vars

(***************************************************************************)
(* Scoring.                                                                *)
(***************************************************************************)
\* the step is the game-over test of run ending a round
RoundEnds ==
    last' \in { "win", "lose" }

\* C1: a round won with hangman_status = w adds (7 - w) + 10 to the score of
\* the current player when no hint was granted to that player in the round,
\* and 7 - w when one was.
C1_WinPoints ==
    [][ last' = "win" =>
          players'[current_player_index].score =
            players[current_player_index].score + (7 - hangman_status)
              + (IF hint_round THEN 0 ELSE 10) ]_vars

\* C2: a lost round leaves the score of every player as it was.
C2_LossAwardsNothing ==
    [][ last' = "lose" =>
          \A p \in DOMAIN players : players'[p].score = players[p].score ]_vars

\* the last round was lost with the word complete and no hint used, by a
\* player who has points
C2_Witness ==
    /\ last = "lose"
    /\ game_state = "end_of_game_single_player"
    /\ IsWordGuessed(current_word, guessed)
    /\ ~players[0].hints_used
    /\ players[0].score > 0

\* C3: within one set of players a score changes only in the step that wins
\* a round, and only the score of the player of that round; the winning step
\* changes it and ends the round, so no later step scores the round again.
C3_ScoredOncePerWin ==
    [][ /\ \A p \in DOMAIN players :
             (last' # "start" /\ players'[p].score # players[p].score)
               => (last' = "win" /\ p = current_player_index)
        /\ last' = "win" =>
             /\ players'[current_player_index].score
                  > players[current_player_index].score
             /\ game_state' # "playing" \/ guessed' = {} ]_vars

\* a round was won and the next round of the same player is in play
C3_Witness ==
    /\ last = "win"
    /\ game_state = "playing"
    /\ current_round > 1
    /\ players[current_player_index].score > 0

(***************************************************************************)
(* Quit.                                                                   *)
(***************************************************************************)
\* C4: a QUIT event ends the process in whatever state it arrives: no round
\* counter changes and no word is chosen after it.
C4_QuitEndsProcess ==
    [][ last' \in { "quit", "exit" } =>
          /\ pc' = "exited"
          /\ current_round' = current_round ]_vars

(***************************************************************************)
(* Rounds and players.                                                     *)
(***************************************************************************)
\* C5: current_round is always one of 1..3.
C5_RoundInRange ==
    current_round \in 1..3

\* C6: with two players each player ends rounds 1, 2 and 3 on the counter
\* and no other round: within a session current_round moves only by the end
\* of a round, by one and not past 3, or back to 1 when the continue button
\* hands over to player 2; the player in turn changes only at that
\* hand-over; and an end-of-game state is entered only by the end of round 3.
C6_ThreeRoundsEach ==
    [][ total_players = 2 /\ last' # "start" =>
        /\ current_round' # current_round =>
              \/ RoundEnds /\ current_round' = current_round + 1
                           /\ current_round' <= 3
              \/ last' = "confirm" /\ current_round' = 1
                                   /\ game_state = "end_of_game_two_players_first"
        /\ current_player_index' # current_player_index =>
              /\ last' = "confirm"
              /\ current_player_index = 0 /\ current_player_index' = 1
        /\ game_state' # game_state /\ game_state' \in EndStates =>
              RoundEnds /\ current_round = 3 ]_vars

\* C7: with two players, the end of round 3 of player 1 leads to the state
\* "end_of_game_two_players_first", and the continue button there hands over
\* to player 2 in round 1, playing.
C7_Handoff ==
    [][ /\ ( /\ RoundEnds
             /\ total_players = 2
             /\ current_player_index = 0
             /\ current_round = 3 )
          => game_state' = "end_of_game_two_players_first"
        /\ ( /\ last' = "confirm"
             /\ game_state = "end_of_game_two_players_first" )
          => /\ current_player_index' = 1
             /\ current_round' = 1
             /\ game_state' = "playing" ]_vars

\* player 2 is in round 1 after the continue button
C7_Witness ==
    /\ last = "confirm"
    /\ total_players = 2
    /\ current_player_index = 1
    /\ current_round = 1
    /\ game_state = "playing"

\* C8: a round that ends before round 3 is followed by the next round of the
\* same player: the counter grows by one, the state is "playing", nothing is
\* guessed, no wrong guess is counted, every letter is offered, the word is
\* one of the difficulty and hints_used of the player is cleared.
C8_NextRound ==
    [][ (RoundEnds /\ current_round < 3) =>
          /\ current_round' = current_round + 1
          /\ current_player_index' = current_player_index
          /\ game_state' = "playing"
          /\ guessed' = {}
          /\ hangman_status' = 0
          /\ \A l \in BoardLetters : letters'[l]
          /\ current_word' \in Words(difficulty)
          /\ ~players'[current_player_index].hints_used ]_vars

\* round 2 of player 2 began after a lost round
C8_Witness ==
    /\ last = "lose"
    /\ game_state = "playing"
    /\ total_players = 2
    /\ current_player_index = 1
    /\ current_round = 2
    /\ guessed = {}

\* C9: the end of round 3 leads to "end_of_game_single_player" with one
\* player, to "end_of_game_two_players_second" for the last of two players
\* and to "end_of_game_two_players_first" otherwise; current_round stays 3.
C9_LastRound ==
    [][ (RoundEnds /\ current_round = 3) =>
          /\ game_state' =
               IF total_players = 1
               THEN "end_of_game_single_player"
               ELSE IF current_player_index = total_players - 1
                    THEN "end_of_game_two_players_second"
                    ELSE "end_of_game_two_players_first"
          /\ current_round' = 3 ]_vars

\* the game of both players is over after a lost last round
C9_Witness ==
    /\ last = "lose"
    /\ game_state = "end_of_game_two_players_second"
    /\ current_round = 3

(***************************************************************************)
(* The word session.                                                       *)
(***************************************************************************)
\* C10: hangman_status never exceeds 7, and no click on a letter or on the
\* hint button lowers it.
C10_WrongGuessCount ==
    /\ [](hangman_status \in 0..7)
    /\ [][ last' = "event" => hangman_status' >= hangman_status ]_vars

\* a letter outside the word was clicked with 7 wrong guesses counted
C10_Witness ==
    /\ last = "event"
    /\ hangman_status = 7
    /\ Cardinality({ l \in guessed : ~InWord(l, current_word) }) > 7

\* C11: a letter is in guessed exactly when its button is hidden, so a letter
\* already guessed can only be guessed again by a click where its button was;
\* such a click leaves hangman_status, guessed, the buttons, and the score and
\* the hint counters of every player as they were.
C11_RepeatedGuess ==
    /\ [](\A l \in BoardLetters : Lower(l) \in guessed <=> ~letters[l])
    /\ [][ last' = "repeat" =>
             UNCHANGED << hangman_status, guessed, letters, players >> ]_vars

\* a letter outside the word was clicked again after it counted as wrong
C11_Witness ==
    /\ last = "repeat"
    /\ hangman_status > 0
    /\ \E l \in guessed : ~InWord(l, current_word)

\* wrong guesses of the round in play: guessed letters that are not in the word
WrongGuesses ==
    Cardinality({ l \in guessed : ~InWord(l, current_word) })

\* C12: hangman_status counts the wrong guesses of the round up to 7; the
\* game-over test of run ends a round that stands at 7 as lost, and it ends
\* no round as lost that stands at 6 or fewer.
C12_LostAtSeven ==
    /\ [](hangman_status = IF WrongGuesses < 7 THEN WrongGuesses ELSE 7)
    /\ [][ /\ (RoundEnds /\ hangman_status = 7) => last' = "lose"
           /\ last' = "lose" => hangman_status = 7 ]_vars

\* the last round was lost at 7 wrong guesses, the word incomplete
C12_Witness ==
    /\ last = "lose"
    /\ game_state \in EndStates
    /\ hangman_status = 7
    /\ WrongGuesses = 7
    /\ ~IsWordGuessed(current_word, guessed)

\* the word is made of lowercase letters only
IsLowercaseWord(word) ==
    \A i \in DOMAIN word : \E k \in 1..26 : word[i] = ascii_lowercase[k]

\* every character of the word is in guessed
AllGuessed ==
    \A i \in DOMAIN current_word : current_word[i] \in guessed

\* C13: for a word of lowercase letters _is_word_guessed is true exactly when
\* every letter of the word is in guessed; no round of such a word is won
\* while a letter of it is missing, and the game-over test of run that finds
\* every letter guessed, below 7 wrong guesses, ends the round as won.
C13_WonAtLastLetter ==
    /\ [](IsLowercaseWord(current_word) =>
            (IsWordGuessed(current_word, guessed) <=> AllGuessed))
    /\ [][ IsLowercaseWord(current_word) =>
             /\ last' = "win" => AllGuessed
             /\ (RoundEnds /\ AllGuessed /\ hangman_status < 7)
                  => last' = "win" ]_vars

\* the last round, of a word of two letters, was won after a wrong guess
C13_Witness ==
    /\ last = "win"
    /\ game_state \in EndStates
    /\ Len(current_word) = 2
    /\ IsLowercaseWord(current_word)
    /\ AllGuessed
    /\ hangman_status > 0

\* C14: while nothing is guessed the state is "playing" and the game-over
\* test of run ends the round neither as won nor as lost, whatever the word
\* and the clicks on the hint button.
C14_FreshRoundNotTerminal ==
    /\ [](guessed = {} => game_state = "playing")
    /\ [][ guessed = {} => ~RoundEnds ]_vars

\* a round of a word without a letter, a hint granted and nothing guessed
C14_Witness ==
    /\ guessed = {}
    /\ pc = "run"
    /\ ~(\E i \in DOMAIN current_word : IsAlpha(current_word[i]))
    /\ hint_round
    /\ last = "event"

(***************************************************************************)
(* Hints.                                                                  *)
(***************************************************************************)
\* the step is a click on the hint button
HintClicked ==
    last' = "event" /\ letters' = letters

\* C15: a click on the hint button by a player with hints left takes one
\* from hints_left of that player, sets hints_used of that player, and gives
\* as hint_message the clue words_clues holds for the difficulty and the
\* word, "No clue available" when it holds none; the scores, the other
\* player and the guesses stay as they were.
C15_HintGranted ==
    [][ (HintClicked /\ players[current_player_index].hints_left > 0) =>
          LET p == players[current_player_index]
              q == players'[current_player_index]
              known == difficulty \in DOMAIN words_clues
                         /\ \E e \in words_clues[difficulty] :
                              e.word = current_word
          IN  /\ q.hints_left = p.hints_left - 1
              /\ q.hints_used = TRUE
              /\ q.score = p.score
              /\ known =>
                   \E e \in words_clues[difficulty] :
                     e.word = current_word /\ hint_message' = e.clue
              /\ ~known => hint_message' = "No clue available"
              /\ \A o \in DOMAIN players :
                   o # current_player_index => players'[o] = players[o]
              /\ UNCHANGED << guessed, hangman_status, letters, current_word,
                              current_round, current_player_index,
                              game_state >> ]_vars

\* the second of two players was granted a hint on a word words_clues holds
\* and was given its clue
C15_Witness ==
    /\ last = "event"
    /\ hint_active
    /\ total_players = 2
    /\ current_player_index = 1
    /\ players[1].hints_used
    /\ players[1].hints_left = 2
    /\ current_word = << "c", "b" >>
    /\ difficulty = "easy"
    /\ hint_message = "a taxi"

\* C16: a click on the hint button by a player with no hint left gives
\* "No hints left." as hint_message and changes neither a counter of a
\* player nor a score nor the guesses; a round that such a player wins with
\* no hint granted in it earns 7 - hangman_status and the bonus of 10.
C16_HintDenied ==
    [][ /\ (HintClicked /\ players[current_player_index].hints_left = 0) =>
             /\ hint_message' = "No hints left."
             /\ UNCHANGED << players, guessed, hangman_status, letters,
                             current_word, current_round,
                             current_player_index, game_state >>
        /\ ( /\ last' = "win"
             /\ players[current_player_index].hints_left = 0
             /\ ~hint_round )
           => players'[current_player_index].score =
                players[current_player_index].score
                  + (7 - hangman_status) + 10 ]_vars

\* C17: hints_left of every player is 3 when a session starts, stays within
\* 0..3 and never grows while the session lasts.
C17_HintBudget ==
    /\ [](\A p \in DOMAIN players :
            /\ players[p].hints_left \in 0..3
            /\ last = "start" => players[p].hints_left = 3)
    /\ [][ last' # "start" =>
             \A p \in DOMAIN players :
               players'[p].hints_left <= players[p].hints_left ]_vars

\* a player who spent the 3 hints asked for one more
C17_Witness ==
    /\ last = "event"
    /\ current_round > 1
    /\ players[current_player_index].hints_left = 0
    /\ hint_message = "No hints left."

\* C18: the steps that begin a round (the round advance after a win or a
\* loss, the hand-over to player 2, the restart by main()) leave hints_left
\* of every player as it was, and of hints_used they change only that of the
\* player whose round begins.
C18_ResetKeepsHints ==
    [][ last' \in { "win", "lose", "confirm", "main" } =>
          \A p \in DOMAIN players :
            /\ players'[p].hints_left = players[p].hints_left
            /\ p # current_player_index' =>
                 players'[p].hints_used = players[p].hints_used
            /\ last' # "win" => players'[p].score = players[p].score ]_vars

\* round 2 or 3 of player 2 began, with hints spent by both players, a hint
\* granted to player 1 in the last round
C18_Witness ==
    /\ last \in { "win", "lose" }
    /\ game_state = "playing"
    /\ guessed = {}
    /\ current_player_index = 1
    /\ players[1].hints_left < 3
    /\ ~players[1].hints_used
    /\ players[0].hints_left < 3
    /\ players[0].hints_used

\* C19: at most one hint is granted in a round: hints_left of the current
\* player goes down only in a round in which no hint was granted before.
C19_OneHintPerRound ==
    [][ players'[current_player_index].hints_left
          < players[current_player_index].hints_left
        => ~hint_round ]_vars

(***************************************************************************)
(* The end of the game of two players.                                     *)
(***************************************************************************)
\* C20: in the state "end_of_game_two_players_second" the winner shown is
\* player 1 exactly when the score of player 1 is the higher one, player 2
\* exactly when that of player 2 is, and a tie exactly when they are equal.
C20_WinnerByScore ==
    game_state = "end_of_game_two_players_second" =>
      /\ winner = "Player 1 is the winner!"
           <=> players[0].score > players[1].score
      /\ winner = "Player 2 is the winner!"
           <=> players[1].score > players[0].score
      /\ winner = "It's a tie!"
           <=> players[0].score = players[1].score

\* the game of both players ended in a tie with points on both sides
C20_Witness ==
    /\ game_state = "end_of_game_two_players_second"
    /\ pc = "run"
    /\ winner = "It's a tie!"
    /\ players[0].score > 0
    /\ players[1].score = players[0].score

(***************************************************************************)
(* Scores and sessions.                                                    *)
(***************************************************************************)
\* C21: the score of every player is a natural number, and within a session
\* (from its start to its end-of-game state and beyond, until main() starts
\* the next session with new players) no step lowers it.
C21_ScoreMonotone ==
    /\ [](\A p \in DOMAIN players : players[p].score \in Nat)
    /\ [][ last' # "start" =>
             \A p \in DOMAIN players :
               players'[p].score >= players[p].score ]_vars

\* the game of two players is over, both with points
C21_Witness ==
    /\ game_state = "end_of_game_two_players_second"
    /\ pc = "run"
    /\ players[0].score > 0
    /\ players[1].score > players[0].score

\* the end-of-game states in which the session is over
SessionOver ==
    game_state \in { "end_of_game_single_player",
                     "end_of_game_two_players_second" }

\* C22: once the state is "end_of_game_single_player" or
\* "end_of_game_two_players_second" no step changes the players, the round
\* counter, the player in turn or the state, but the start of a new session
\* by main(): round 1, "playing", every player with score 0 and 3 hints.
C22_SessionOver ==
    [][ SessionOver =>
          \/ UNCHANGED << players, current_round, current_player_index,
                          game_state >>
          \/ /\ last' = "start"
             /\ last = "confirm"
             /\ game_state' = "playing"
             /\ current_round' = 1
             /\ current_player_index' = 0
             /\ \A p \in DOMAIN players' :
                  /\ players'[p].score = 0
                  /\ players'[p].hints_left = 3
                  /\ players'[p].hints_used = FALSE ]_vars

\* the continue button was clicked at the end of a game of one player who
\* holds points and has spent hints
C22_Witness ==
    /\ pc = "screens"
    /\ last = "confirm"
    /\ game_state = "end_of_game_single_player"
    /\ players[0].score > 0
    /\ players[0].hints_left < 3

\* the file holds at least one word for the difficulty
FileUsable(file, d) ==
    /\ file.kind = "json"
    /\ IF d \in DOMAIN file.data THEN file.data[d] # {} ELSE FALSE

\* C23: when the word data is missing, unreadable, without the chosen
\* difficulty or without a word for it, starting the session ends in an error
\* that leaves main(); a round is in play only with a non-empty word selected
\* from the data that was read.
C23_StartFails ==
    /\ ~FileUsable(clues_file, difficulty) => pc = "error"
    /\ pc = "error" => StartRaises(loaded_clues, difficulty) /\ last = "error"
    /\ pc = "run" /\ game_state = "playing" =>
         /\ current_word # << >>
         /\ current_word \in WordsOf(loaded_clues, difficulty)

C23_Witness ==
    /\ pc = "error"
    /\ clues_file.kind = "missing"
    /\ loaded_clues = NoClues
    /\ game_state = "end_of_game_two_players_second"

(***************************************************************************)
(* The game-over test of run.                                              *)
(***************************************************************************)
\* C24: once a guess has made the round lost or the word complete, the next
\* step of the round is the one that ends it: no further letter is guessed
\* and no hint is granted before; and when the round is both lost and
\* complete it ends as a loss.
C24_TestedAfterEachGuess ==
    [][ pc = "run" /\ game_state = "playing" /\ Pending =>
          /\ last' = "event" =>
               /\ guessed' = guessed
               /\ hangman_status' = hangman_status
               /\ players' = players
          /\ IsHanged(hangman_status) /\ last' \in { "win", "lose" } =>
               last' = "lose" ]_vars

(***************************************************************************)
(* The start of a round.                                                   *)
(***************************************************************************)
\* a round has just begun: by the start of a set of players, by the end of
\* the round before, by main() after a QUIT event, or by the confirmation of
\* the first of two players
RoundStarts ==
    /\ pc = "run"
    /\ game_state = "playing"
    /\ last \in { "start", "win", "lose", "main", "confirm" }

\* C25: when a round begins, on whichever path, hints_used of the current
\* player is False.
C25_HintsUsedCleared ==
    RoundStarts => ~players[current_player_index].hints_used

\* C26: when a round begins no letter is guessed, hangman_status is 0 and
\* every letter of the board is visible; an event of the round never takes a
\* letter out of guessed.
C26_FreshRound ==
    /\ [](RoundStarts =>
            /\ guessed = {}
            /\ hangman_status = 0
            /\ \A l \in BoardLetters : letters[l])
    /\ [][ last' \in { "event", "repeat" } => guessed \subseteq guessed' ]_vars

\* round 2 begins after a round lost with seven letters guessed
C26_Witness ==
    /\ RoundStarts
    /\ last = "lose"
    /\ current_round = 2
    /\ players[current_player_index].hints_used = FALSE
    /\ guessed = {}

(***************************************************************************)
(* Words without a letter.                                                 *)
(***************************************************************************)
\* the word has an alphabetic character
HasLetter(word) ==
    \E i \in DOMAIN word : IsAlpha(word[i])

\* C27: a word without an alphabetic character is never taken for guessed,
\* and a round played on such a word is never won.
C27_NoLetterNeverWon ==
    /\ [](~HasLetter(current_word) => ~IsWordGuessed(current_word, guessed))
    /\ [][ ~HasLetter(current_word) => last' # "win" ]_vars

(***************************************************************************)
(* The order in which events are handled.                                  *)
(***************************************************************************)
\* C28: no letter click, hint request or confirmation click is handled while
\* the round of the game in play meets a game-over condition that run has not
\* acted on yet: the scoring and the round advance that an earlier click has
\* made due come first.
C28_NotReentrant ==
    [][ last' \in { "event", "repeat", "confirm" } =>
          ~(pc = "run" /\ game_state = "playing" /\ Pending) ]_vars

(***************************************************************************)
(* Two players: what the turn of one player does to the other.             *)
(***************************************************************************)
\* C29: in a game of two players no step of the turn of one player (guess,
\* hint request, end of a round, reset for the next round) changes the score,
\* hints_left or hints_used of the other player, and the continue button
\* after the first player leaves score and hints_left of both as they are.
C29_OtherPlayerUntouched ==
    [][ total_players = 2 /\ last' # "start" =>
          IF last' = "confirm" /\ game_state = "end_of_game_two_players_first"
          THEN \A p \in DOMAIN players :
                 /\ players'[p].score = players[p].score
                 /\ players'[p].hints_left = players[p].hints_left
          ELSE players'[1 - current_player_index]
                 = players[1 - current_player_index] ]_vars

\* the second player has won a round and taken a hint after the first player
\* has scored and taken hints, the last of them in the third round
C29_Witness ==
    /\ total_players = 2
    /\ current_player_index = 1
    /\ last = "win"
    /\ players[1].score > 0
    /\ players[1].hints_left < 3
    /\ players[0].score > 0
    /\ players[0].hints_left < 3
    /\ players[0].hints_used

(***************************************************************************)
(* The round advance.                                                      *)
(***************************************************************************)
\* C30: the round is advanced (handle_end_of_round runs, or current_round is
\* counted up) only while the game is in play, by the step that ends a round
\* as won or lost: never in an end-of-game state, and never without a win or
\* a loss detected.
C30_AdvanceFromPlaying ==
    [][ last' \in { "win", "lose" } \/ current_round' = current_round + 1 =>
          /\ pc = "run"
          /\ game_state = "playing"
          /\ Pending
          /\ last' \in { "win", "lose" } ]_vars

(***************************************************************************)
(* hangman_status as a count of the wrong guesses.                         *)
(***************************************************************************)
\* the smaller of two numbers
Min(a, b) ==
    IF a < b THEN a ELSE b

\* the step is a click on a visible letter of the word
CorrectGuess ==
    /\ last' = "event"
    /\ \E l \in guessed' \ guessed : InWord(l, current_word)

\* C31: while a round is in play, and in the state a round has ended in,
\* hangman_status is the number of guessed letters that are not in the word,
\* or 7 when there are more; a click on a letter of the word and a click on
\* the hint button leave it as it is.
C31_StatusCountsWrongGuesses ==
    /\ [](pc = "run" => hangman_status = Min(7, WrongGuesses))
    /\ [][ CorrectGuess \/ HintClicked =>
             hangman_status' = hangman_status ]_vars

\* two wrong letters and a letter of the word are guessed, a hint was granted
C31_Witness ==
    /\ pc = "run"
    /\ game_state = "playing"
    /\ last = "event"
    /\ hangman_status = 2
    /\ WrongGuesses = 2
    /\ \E l \in guessed : InWord(l, current_word)
    /\ hint_round

(***************************************************************************)
(* Termination of the game of a player who keeps playing.                  *)
(***************************************************************************)
\* every letter of the board has been clicked
AllClicked ==
    \A l \in BoardLetters : ~letters[l]

\* C32: a player who keeps clicking visible letters and clicks continue when
\* asked, and never quits, guesses each letter of the board at most once in
\* a round; a round in which every letter has been clicked meets a game-over
\* condition; every round in play comes to its end, and the game reaches
\* "end_of_game_single_player" (one player) or
\* "end_of_game_two_players_second" (two players).
C32_Terminates ==
    /\ [](Cardinality(guessed) <= NumLetters)
    /\ [](game_state = "playing" /\ AllClicked => Pending)
    /\ \A r \in 1..TotalRounds :
         (game_state = "playing" /\ current_round = r)
           ~> (game_state # "playing" \/ current_round # r)
    /\ <>(game_state = IF total_players = 1
                       THEN "end_of_game_single_player"
                       ELSE "end_of_game_two_players_second")

\* the third round of a player alone has ended with every letter clicked
C32_Witness ==
    /\ game_state = "end_of_game_single_player"
    /\ current_round = TotalRounds
    /\ AllClicked

(***************************************************************************)
(* The values of game_state.                                               *)
(***************************************************************************)
\* C33: game_state is "playing" or one of the three end-of-game states; it
\* is never "end_of_round", the state run and handle_button_click have a
\* branch for.
C33_GameStates ==
    /\ game_state \in { "playing", "end_of_game_single_player",
                        "end_of_game_two_players_first",
                        "end_of_game_two_players_second" }
    /\ game_state # "end_of_round"

\* handle_end_of_round has ended the third round of a player alone, lost,
\* and run waits for a button
C33_Witness ==
    /\ pc = "run"
    /\ total_players = 1
    /\ game_state = "end_of_game_single_player"
    /\ last = "lose"
    /\ current_round = TotalRounds
    /\ players[0].score = 0

====
